---- MODULE Spec2Model ----
(***************************************************************************)
(* Model of cmd/ls of gocoreutils: main, fetchEntryInfo, printEntries,     *)
(* printLongEntryInfo, blocksForSize, SafeName, formatError.               *)
(*                                                                         *)
(* A file name is a sequence of byte values (Go strings compare bytewise), *)
(* so that strings.ToLower, strings.Contains, the quoting of SafeName and  *)
(* the orders used by sort.Strings and sort.Slice are computed, not        *)
(* assumed.  The filesystem and the account database are the environment:  *)
(* they are drawn in Init and stay fixed during the run.                   *)
(***************************************************************************)
EXTENDS Integers, Sequences, FiniteSets, TLC

VARIABLES
    paths,       \* flag.Args(): the path arguments, in order
    config,      \* config.blockSize, config.formatLongList
    fs,          \* the filesystem: fs.cwd[n], and fs.kids[n] in each of its directories
    env,         \* platform (Stat_t available), account database, current year
    pc,          \* position in main: "stat", "report", "print", "flush", "exit", "done"
    i,           \* index of the next path of the loop of main
    entries,     \* main's entries slice
    errs,        \* main's errs slice
    fetchRet,    \* the value fetchEntryInfo returned to main
    met,         \* history: every failure met inside fetchEntryInfo, nested calls included
    reads,       \* history: every os.ReadDir issued, with the depth of the call
    writer,      \* lines buffered in the tabwriter
    stdout,      \* lines that reached standard output
    stderr,      \* lines on the error stream
    flushFailed, \* whether entryWriter.Flush returned an error
    panicked,    \* "none", or the runtime failure that ended the process
    exitStatus   \* -1 while running, then the process's exit status

vars == <<paths, config, fs, env, pc, i, entries, errs, fetchRet, met, reads,
          writer, stdout, stderr, flushFailed, panicked, exitStatus>>

-----------------------------------------------------------------------------
(* Bounds of the model *)

\* at most this many path arguments
MaxPaths == 2
\* at most this many children in one directory
MaxKids == 2

-----------------------------------------------------------------------------
(* Strings as byte sequences *)

\* "a", "B" and "c d": an upper-case name that sorts before "a" bytewise and
\* after it ignoring case, and a name with a space, which SafeName quotes.
Name_a == <<97>>
Name_B == <<66>>
Name_cd == <<99, 32, 100>>
Names == {Name_a, Name_B, Name_cd}

Nil == [nil |-> TRUE]

Min(a, b) == IF a < b THEN a ELSE b

\* Go's < on strings: bytewise lexicographic
Less(s, t) ==
    \E k \in 1..(Min(Len(s), Len(t)) + 1) :
        /\ \A j \in 1..(k - 1) : s[j] = t[j]
        /\ IF k > Len(s) THEN k <= Len(t)
           ELSE IF k > Len(t) THEN FALSE
           ELSE s[k] < t[k]

ToLowerByte(c) == IF c >= 65 /\ c <= 90 THEN c + 32 ELSE c

ToLower(s) == [k \in 1..Len(s) |-> ToLowerByte(s[k])]

Contains(s, c) == \E k \in 1..Len(s) : s[k] = c

\* strconv.Itoa on the ids of the model, and the parse the lookups make of it
Itoa(n) == CASE n = 0 -> "0" [] n = 1 -> "1" [] OTHER -> "-1"

Atoi(s) == CASE s = "0" -> 0 [] s = "1" -> 1 [] OTHER -> -1

-----------------------------------------------------------------------------
(* The environment: filesystem and account database *)

\* What lstat reports for a file of the given name and kind.  Block counts
\* are even.  "B" is owned by uid 1, "c d" belongs to gid 1.
FileInfoOf(name, isDir) ==
    [ name    |-> name,
      isDir   |-> isDir,
      mode    |-> IF isDir THEN "drwxr-xr-x" ELSE "-rw-r--r--",
      size    |-> 100 * Len(name),
      modYear |-> IF name = Name_a THEN 2026 ELSE 2024,
      nlink   |-> IF isDir THEN 2 ELSE 1,
      blocks  |-> 8 * Len(name),
      uid     |-> IF name = Name_B THEN 1 ELSE 0,
      gid     |-> IF name = Name_cd THEN 1 ELSE 0 ]

PathError(op, path, err) ==
    [type |-> "PathError", op |-> op, path |-> path, err |-> err, id |-> -1]
UnknownUserIdError(uid) ==
    [type |-> "UnknownUserIdError", op |-> "", path |-> <<>>, err |-> "", id |-> uid]
UnknownGroupIdError(gid) ==
    [type |-> "UnknownGroupIdError", op |-> "", path |-> <<>>, err |-> "", id |-> gid]
WriteError ==
    [type |-> "WriteError", op |-> "write", path |-> <<>>, err |-> "EPIPE", id |-> -1]

\* os.Stat(path), path relative to the working directory
Stat(path) ==
    IF fs.cwd[path] = "missing"
    THEN [info |-> Nil, err |-> PathError("stat", path, "ENOENT")]
    ELSE [info |-> FileInfoOf(path, fs.cwd[path] = "dir"), err |-> Nil]

\* os.ReadDir(path): the entries sorted by filename; path is resolved against
\* the working directory whatever the depth of the caller.  The directories
\* of the working directory all hold the same listing, fs.kids.
ReadDir(path) ==
    CASE fs.cwd[path] = "missing" ->
            [list |-> <<>>, err |-> PathError("open", path, "ENOENT")]
      [] fs.cwd[path] = "file" ->
            [list |-> <<>>, err |-> PathError("readdirent", path, "ENOTDIR")]
      [] OTHER ->
            [list |-> SortSeq(
                        LET present == {n \in Names : fs.kids[n] # "absent"}
                            RECURSIVE AsSeq(_)
                            AsSeq(S) == IF S = {} THEN <<>>
                                        ELSE LET x == CHOOSE x \in S : TRUE
                                             IN <<x>> \o AsSeq(S \ {x})
                        IN AsSeq(present),
                        Less),
             err |-> Nil]

\* dirEntry.Info() of the entry name read from directory dir: an lstat, which
\* fails when the file went away after the directory was read
DirEntryInfo(dir, name) ==
    IF fs.kids[name] = "gone"
    THEN [info |-> Nil, err |-> PathError("lstat", name, "ENOENT")]
    ELSE [info |-> FileInfoOf(name, fs.kids[name] = "dir"), err |-> Nil]

\* user.LookupId and user.LookupGroupId
UserNameOf(uid) == IF uid = 0 THEN "root" ELSE "alice"
GroupNameOf(gid) == IF gid = 0 THEN "wheel" ELSE "staff"

LookupId(s) ==
    IF Atoi(s) \in env.users
    THEN [user |-> [Username |-> UserNameOf(Atoi(s))], err |-> Nil]
    ELSE [user |-> Nil, err |-> UnknownUserIdError(Atoi(s))]

LookupGroupId(s) ==
    IF Atoi(s) \in env.groups
    THEN [group |-> [Name |-> GroupNameOf(Atoi(s))], err |-> Nil]
    ELSE [group |-> Nil, err |-> UnknownGroupIdError(Atoi(s))]

-----------------------------------------------------------------------------
(* entryInfo *)

newEntryInfo(path, fsInfo) ==
    [ path          |-> path,
      info          |-> fsInfo,
      directRequest |-> FALSE,
      numLinks      |-> 0,
      numBlocks     |-> 0,
      uID           |-> -1,
      gID           |-> -1,
      user          |-> Nil,
      group         |-> Nil,
      subEntries    |-> <<>> ]

SafeName(e) ==
    IF Contains(e.path, 32) THEN <<39>> \o e.path \o <<39>> ELSE e.path

\* total / factor panics (integer divide by zero) when blockSize < 512
blocksForSize(e, blockSize) ==
    LET factor == blockSize \div 512
        RECURSIVE Sum(_, _)
        Sum(s, k) == IF k > Len(s) THEN 0 ELSE s[k].numBlocks + Sum(s, k + 1)
        total == IF e.info.isDir THEN Sum(e.subEntries, 1) ELSE e.numBlocks
    IN IF factor = 0 THEN [ok |-> FALSE, val |-> 0]
       ELSE [ok |-> TRUE, val |-> total \div factor]

-----------------------------------------------------------------------------
(* fetchEntryInfo *)

\* the errors of a sequence of [.., err] results, in order
ErrsOf(results) ==
    LET failed == SelectSeq(results, LAMBDA r : r.err # Nil)
    IN [k \in 1..Len(failed) |-> failed[k].err]

\* line 180: the function ends with "return nil" whatever errs holds
fetchReturn(localErrs) == <<>>

RECURSIVE fetchFrom(_, _, _, _, _)
RECURSIVE fetchOne(_, _, _)

\* The body of the loop for one entry.  chain is the set of directory paths
\* being read by the enclosing calls.  The result carries the entry as
\* mutated in place, the local errs contribution, the failures met (history),
\* the directory reads issued (history) and the panic that ended the walk.
fetchOne(e, recurse, chain) ==
    IF e.info = Nil
    THEN \* entries[i].Sys() on a nil fs.FileInfo
         [entry |-> e, errs |-> <<>>, met |-> <<>>, reads |-> <<>>,
          panic |-> "nil pointer dereference"]
    ELSE
    LET e1 == IF env.hasSys
              THEN [e EXCEPT !.numLinks = e.info.nlink, !.numBlocks = e.info.blocks,
                             !.uID = e.info.uid, !.gID = e.info.gid]
              ELSE e
        lu == IF e1.uID # -1 THEN LookupId(Itoa(e1.uID)) ELSE [user |-> Nil, err |-> Nil]
        e2 == [e1 EXCEPT !.user = lu.user]
        lg == IF e2.gID # -1 THEN LookupGroupId(Itoa(e2.gID))
              ELSE [group |-> Nil, err |-> Nil]
        e3 == [e2 EXCEPT !.group = lg.group]
        idErrs == ErrsOf(<<[err |-> lu.err]>>) \o ErrsOf(<<[err |-> lg.err]>>)
    IN IF ~e3.info.isDir
       THEN [entry |-> e3, errs |-> idErrs, met |-> idErrs, reads |-> <<>>,
             panic |-> "none"]
       ELSE
       LET rd == ReadDir(e3.path)
           infos == [j \in 1..Len(rd.list) |-> DirEntryInfo(e3.path, rd.list[j])]
           subs == [j \in 1..Len(rd.list) |-> newEntryInfo(rd.list[j], infos[j].info)]
           dirErrs == ErrsOf(<<[err |-> rd.err]>>) \o ErrsOf(infos)
           read == <<[path |-> e3.path, depth |-> Cardinality(chain)]>>
       IN IF e3.path \in chain
          THEN \* the same directory is read again by a nested call: the
               \* recursion never ends and the goroutine stack overflows
               [entry |-> [e3 EXCEPT !.subEntries = subs], errs |-> idErrs \o dirErrs,
                met |-> idErrs \o dirErrs, reads |-> read, panic |-> "stack overflow"]
          ELSE
          LET nested == fetchFrom(subs, 1, recurse, chain \cup {e3.path},
                                  [errs |-> <<>>, met |-> <<>>, reads |-> <<>>,
                                   panic |-> "none"])
          IN [entry |-> [e3 EXCEPT !.subEntries = nested.entries],
              errs  |-> idErrs \o dirErrs \o nested.ret,
              met   |-> idErrs \o dirErrs \o nested.met,
              reads |-> read \o nested.reads,
              panic |-> nested.panic]

\* for i := range entries, from index k on
fetchFrom(ents, k, recurse, chain, st) ==
    IF k > Len(ents) \/ st.panic # "none"
    THEN [entries |-> ents, ret |-> fetchReturn(st.errs), errs |-> st.errs,
          met |-> st.met, reads |-> st.reads, panic |-> st.panic]
    ELSE LET r == fetchOne(ents[k], recurse, chain)
         IN fetchFrom([ents EXCEPT ![k] = r.entry], k + 1, recurse, chain,
                      [errs  |-> st.errs \o r.errs,
                       met   |-> st.met \o r.met,
                       reads |-> st.reads \o r.reads,
                       panic |-> r.panic])

fetchEntryInfo(ents, recurse) ==
    fetchFrom(ents, 1, recurse, {},
              [errs |-> <<>>, met |-> <<>>, reads |-> <<>>, panic |-> "none"])

-----------------------------------------------------------------------------
(* Rendering *)

timeFormat == "Jan\t_2\t15:04"
dateFormat == "Jan\t_2\t 2006"

\* printLongEntryInfo with the numeric id shown when the name is not known
printLongEntryInfoRawId(entry) ==
    [ kind  |-> "long",
      mode  |-> entry.info.mode,
      links |-> entry.numLinks,
      owner |-> IF entry.user # Nil THEN entry.user.Username ELSE Itoa(entry.uID),
      group |-> IF entry.group # Nil THEN entry.group.Name ELSE Itoa(entry.gID),
      size  |-> entry.info.size,
      time  |-> [layout |-> IF entry.info.modYear < env.nowYear THEN dateFormat
                            ELSE timeFormat,
                 of     |-> entry.info.modYear],
      name  |-> SafeName(entry) ]

\* One line of the long listing: the columns, in order.  The time column is
\* the layout chosen and the modification time it formats.
printLongEntryInfo(entry) ==
    [ kind  |-> "long",
      mode  |-> entry.info.mode,
      links |-> entry.numLinks,
      owner |-> IF entry.user # Nil THEN entry.user.Username ELSE "Unknown",
      group |-> IF entry.group # Nil THEN entry.group.Name ELSE "Unknown",
      size  |-> entry.info.size,
      time  |-> [layout |-> IF entry.info.modYear < env.nowYear THEN dateFormat
                            ELSE timeFormat,
                 of     |-> entry.info.modYear],
      name  |-> SafeName(entry) ]

\* sort.Slice(entry.subEntries, ...) of the long listing: by lower-cased path.
\* No two names of one directory are equal ignoring case in this model, so
\* the order is total and the unstable sort has one outcome.
sortSubEntries(subEntries) ==
    SortSeq(subEntries, LAMBDA x, y : Less(ToLower(x.path), ToLower(y.path)))

\* sort.Slice(subFileNames, ...) of the short listing: by lower-cased SafeName
sortSubFileNames(subFileNames) ==
    SortSeq(subFileNames, LAMBDA x, y : Less(ToLower(x), ToLower(y)))

\* sort.Strings(directFileNames)
sortDirectFileNames(directFileNames) == SortSeq(directFileNames, Less)

BlankLine == [kind |-> "blank"]
HeaderLine(name) == [kind |-> "header", name |-> name]
TotalLine(n) == [kind |-> "total", n |-> n]
NamesLine(names) == [kind |-> "names", names |-> names]

RECURSIVE printEntries(_, _)
RECURSIVE printOtherEntries(_, _, _, _)

\* for i, entry := range otherEntries, from index k on; n is len(entries)
printOtherEntries(otherEntries, k, n, recurse) ==
    IF k > Len(otherEntries) THEN [lines |-> <<>>, panic |-> "none"]
    ELSE
    LET entry == otherEntries[k]
        sep == IF k > 1 THEN <<BlankLine>> ELSE <<>>
        header == IF n > 1 THEN <<HeaderLine(SafeName(entry))>> ELSE <<>>
        blocks == blocksForSize(entry, config.blockSize)
    IN IF config.formatLongList /\ ~blocks.ok
       THEN [lines |-> sep \o header, panic |-> "integer divide by zero"]
       ELSE
       LET total == IF config.formatLongList THEN <<TotalLine(blocks.val)>> ELSE <<>>
           sorted == sortSubEntries(entry.subEntries)
           subFileNames == [j \in 1..Len(entry.subEntries) |->
                               SafeName(entry.subEntries[j])]
           rows == IF ~config.formatLongList
                   THEN IF Len(subFileNames) > 0
                        THEN <<NamesLine(sortSubFileNames(subFileNames))>>
                        ELSE <<>>
                   ELSE [j \in 1..Len(sorted) |-> printLongEntryInfo(sorted[j])]
           nested == IF recurse
                     THEN printEntries(IF config.formatLongList THEN sorted
                                       ELSE entry.subEntries, recurse)
                     ELSE [lines |-> <<>>, panic |-> "none"]
           mine == sep \o header \o total \o rows \o nested.lines
       IN IF nested.panic # "none"
          THEN [lines |-> mine, panic |-> nested.panic]
          ELSE LET rest == printOtherEntries(otherEntries, k + 1, n, recurse)
               IN [lines |-> mine \o rest.lines, panic |-> rest.panic]

printEntries(ents, recurse) ==
    LET IsDirectFile(e) == e.directRequest /\ ~e.info.isDir
        directFileEntries == SelectSeq(ents, IsDirectFile)
        directFileNames == [k \in 1..Len(directFileEntries) |->
                               SafeName(directFileEntries[k])]
        otherEntries == SelectSeq(ents, LAMBDA e : ~IsDirectFile(e))
        direct == IF ~config.formatLongList /\ Len(directFileNames) > 0
                  THEN <<NamesLine(sortDirectFileNames(directFileNames))>>
                  ELSE IF config.formatLongList
                  THEN [k \in 1..Len(directFileEntries) |->
                           printLongEntryInfo(directFileEntries[k])]
                  ELSE <<>>
        others == printOtherEntries(otherEntries, 1, Len(ents), recurse)
    IN [lines |-> direct \o others.lines, panic |-> others.panic]

formatError(err) ==
    IF err.type = "PathError"
    THEN [text |-> "cannot access", path |-> err.path, detail |-> err.err]
    ELSE [text |-> err.type, path |-> <<>>, detail |-> Itoa(err.id)]

printErrors(es) == [k \in 1..Len(es) |-> formatError(es[k])]

-----------------------------------------------------------------------------
(* The inputs of a run *)

DefaultBlockSize == 1024

\* --block-size values tried with -l: one below 512, and the default
BlockSizes == {256, DefaultBlockSize}

Configs ==
    {[formatLongList |-> FALSE, blockSize |-> DefaultBlockSize]}
    \cup {[formatLongList |-> TRUE, blockSize |-> b] : b \in BlockSizes}

\* Stat_t available and every id known; uid 1 without an account; gid 1
\* without a group; a platform without Stat_t
Envs ==
    { [hasSys |-> TRUE,  users |-> {0, 1}, groups |-> {0, 1}, nowYear |-> 2026],
      [hasSys |-> TRUE,  users |-> {0},    groups |-> {0, 1}, nowYear |-> 2026],
      [hasSys |-> TRUE,  users |-> {0, 1}, groups |-> {0},    nowYear |-> 2026],
      [hasSys |-> FALSE, users |-> {0, 1}, groups |-> {0, 1}, nowYear |-> 2026] }

PathSeqs == UNION {[1..n -> Names] : n \in 0..MaxPaths}

NoKids == [n \in Names |-> "absent"]

KidMaps ==
    {k \in [Names -> {"absent", "file", "dir", "gone"}] :
        Cardinality({n \in Names : k[n] # "absent"}) <= MaxKids}

KidsOf(cwd) == IF \E n \in Names : cwd[n] = "dir" THEN KidMaps ELSE {NoKids}

Range(s) == {s[k] : k \in 1..Len(s)}

\* The working directory holds the arguments that exist and nothing else
Touched(args, cwd) ==
    \A n \in Names : cwd[n] # "missing" => n \in Range(args)

-----------------------------------------------------------------------------
(* main *)

Init ==
    /\ paths \in PathSeqs
    /\ config \in Configs
    /\ env \in Envs
    /\ \E cwd \in [Names -> {"missing", "file", "dir"}] :
       \E kids \in KidsOf(cwd) :
          /\ Touched(paths, cwd)
          /\ fs = [cwd |-> cwd, kids |-> kids]
    /\ pc = "stat"
    /\ i = 1
    /\ entries = <<>>
    /\ errs = <<>>
    /\ fetchRet = <<>>
    /\ met = <<>>
    /\ reads = <<>>
    /\ writer = <<>>
    /\ stdout = <<>>
    /\ stderr = <<>>
    /\ flushFailed = FALSE
    /\ panicked = "none"
    /\ exitStatus = -1

\* lines 96-109: one iteration of the loop over paths
StatPath ==
    /\ pc = "stat"
    /\ i <= Len(paths)
    /\ LET st == Stat(paths[i])
       IN /\ errs' = IF st.err # Nil THEN Append(errs, st.err) ELSE errs
          /\ entries' = IF st.info # Nil
                        THEN Append(entries,
                                    [newEntryInfo(paths[i], st.info)
                                        EXCEPT !.directRequest = TRUE])
                        ELSE entries
    /\ i' = i + 1
    /\ UNCHANGED <<paths, config, fs, env, pc, fetchRet, met, reads, writer, stdout,
                   stderr, flushFailed, panicked, exitStatus>>

\* the Go runtime ends the process: the trace goes to the error stream, the
\* buffered output is lost, the exit status is 2
Crash(reason) ==
    /\ panicked' = reason
    /\ pc' = "done"
    /\ exitStatus' = 2
    /\ stderr' = Append(stderr, [text |-> "panic", path |-> <<>>, detail |-> reason])

\* line 111: errs = append(errs, fetchEntryInfo(entries, false)...)
Fetch ==
    /\ pc = "stat"
    /\ i > Len(paths)
    /\ LET r == fetchEntryInfo(entries, FALSE)
       IN /\ entries' = r.entries
          /\ met' = r.met
          /\ reads' = r.reads
          /\ IF r.panic # "none"
             THEN /\ Crash(r.panic)
                  /\ UNCHANGED <<errs, fetchRet>>
             ELSE /\ fetchRet' = r.ret
                  /\ errs' = errs \o r.ret
                  /\ pc' = "report"
                  /\ UNCHANGED <<stderr, panicked, exitStatus>>
    /\ UNCHANGED <<paths, config, fs, env, i, writer, stdout, flushFailed>>

\* lines 113-115
ReportErrors ==
    /\ pc = "report"
    /\ stderr' = IF Len(errs) > 0 THEN stderr \o printErrors(errs) ELSE stderr
    /\ pc' = "print"
    /\ UNCHANGED <<paths, config, fs, env, i, entries, errs, fetchRet, met, reads,
                   writer, stdout, flushFailed, panicked, exitStatus>>

\* lines 117-119.  In long mode sort.Slice sorts each directory's subEntries
\* in place, in the array main's entries share.
PrintEntries ==
    /\ pc = "print"
    /\ LET r == printEntries(entries, FALSE)
       IN /\ writer' = r.lines
          /\ IF r.panic # "none"
             THEN /\ Crash(r.panic)
                  /\ UNCHANGED entries
             ELSE /\ pc' = "flush"
                  /\ entries' = IF config.formatLongList
                                THEN [k \in 1..Len(entries) |->
                                        [entries[k] EXCEPT
                                            !.subEntries = sortSubEntries(@)]]
                                ELSE entries
                  /\ UNCHANGED <<stderr, panicked, exitStatus>>
    /\ UNCHANGED <<paths, config, fs, env, i, errs, fetchRet, met, reads, stdout,
                   flushFailed>>

\* lines 121-124: the flush succeeds or fails
Flush ==
    /\ pc = "flush"
    /\ \E ok \in BOOLEAN :
          IF ok
          THEN /\ stdout' = writer
               /\ UNCHANGED <<errs, stderr, flushFailed>>
          ELSE /\ errs' = Append(errs, WriteError)
               /\ stderr' = stderr \o printErrors(<<WriteError>>)
               /\ flushFailed' = TRUE
               /\ UNCHANGED stdout
    /\ pc' = "exit"
    /\ UNCHANGED <<paths, config, fs, env, i, entries, fetchRet, met, reads, writer,
                   panicked, exitStatus>>

\* lines 126-129
Exit ==
    /\ pc = "exit"
    /\ exitStatus' = IF Len(errs) > 0 THEN 2 ELSE 0
    /\ pc' = "done"
    /\ UNCHANGED <<paths, config, fs, env, i, entries, errs, fetchRet, met, reads,
                   writer, stdout, stderr, flushFailed, panicked>>

Next == StatPath \/ Fetch \/ ReportErrors \/ PrintEntries \/ Flush \/ Exit

Spec == Init /\ [][Next]_vars

-----------------------------------------------------------------------------
(* What the environment holds, independently of what the program computed *)

StatFails(p) == fs.cwd[p] = "missing"

NumDirectFiles == Cardinality({k \in 1..Len(paths) : fs.cwd[paths[k]] = "file"})
NumDirRoots == Cardinality({k \in 1..Len(paths) : fs.cwd[paths[k]] = "dir"})

Count(seq, x) == Cardinality({k \in 1..Len(seq) : seq[k] = x})
CountKind(lines, kind) == Cardinality({k \in 1..Len(lines) : lines[k].kind = kind})

\* the name a rendered name stands for: SafeName undone
Unquote(s) ==
    IF Len(s) >= 2 /\ s[1] = 39 /\ s[Len(s)] = 39 THEN SubSeq(s, 2, Len(s) - 1) ELSE s

\* x does not come after y in case-insensitive lexicographic order
LeqIgnoringCase(x, y) == ~Less(ToLower(y), ToLower(x))

\* printEntries ran to its end and the writer holds the whole listing
Rendered == pc \in {"flush", "exit", "done"} /\ panicked = "none"

\* fetchEntryInfo returned to main
FetchReturned == pc \in {"report", "print", "flush", "exit"}
                   \/ (pc = "done" /\ panicked \notin {"nil pointer dereference",
                                                       "stack overflow"})

\* line k of the writer is a long row of a directory's child (the rows of the
\* directly requested files come before the first total line)
IsChildRow(k) ==
    /\ writer[k].kind = "long"
    /\ \E j \in 1..(k - 1) : writer[j].kind = "total"

-----------------------------------------------------------------------------
(* Claims *)

\* an error occurred during the run; a runtime panic counts as one
ErrorOccurred ==
    \/ \E k \in 1..Len(paths) : StatFails(paths[k])
    \/ met # <<>>
    \/ flushFailed
    \/ panicked # "none"

\* C1: the process exits with status 2 if and only if at least one error
\* occurred during the run (a stat failure, a directory-read or child-metadata
\* failure, a uid or gid lookup failure, an output-flush failure), and with
\* status 0 otherwise.
C1_ExitStatusIffError ==
    pc = "done" =>
        /\ exitStatus \in {0, 2}
        /\ exitStatus = 2 <=> ErrorOccurred

\* C2: when fetchEntryInfo returns, it returns to its caller every failure it
\* met during the walk, nested calls included, and every such error is then
\* a line on the error stream.
C2_FetchReturnsEveryFailure ==
    FetchReturned =>
        /\ Len(fetchRet) = Len(met)
        /\ \A k \in 1..Len(met) : Count(fetchRet, met[k]) = Count(met, met[k])
        /\ pc = "done" =>
              \A k \in 1..Len(met) : formatError(met[k]) \in Range(stderr)

\* the root p was fetched and written to the listing: a plain file by its
\* name among the directly requested files, a directory by its children
RootRendered(p) ==
    /\ Rendered
    /\ \E k \in 1..Len(entries) : entries[k].path = p
    /\ fs.cwd[p] = "file" =>
          \E k \in 1..Len(writer) :
              \/ writer[k].kind = "names" /\ ~IsChildRow(k)
                   /\ \E j \in 1..Len(writer[k].names) : Unquote(writer[k].names[j]) = p
              \/ writer[k].kind = "long" /\ ~IsChildRow(k) /\ Unquote(writer[k].name) = p
    /\ fs.cwd[p] = "dir" =>
          /\ \E k \in 1..Len(reads) : reads[k] = [path |-> p, depth |-> 0]
          /\ \A n \in Names :
                fs.kids[n] # "absent" =>
                    \E k \in 1..Len(writer) :
                        \/ writer[k].kind = "names"
                             /\ \E j \in 1..Len(writer[k].names) :
                                   Unquote(writer[k].names[j]) = n
                        \/ IsChildRow(k) /\ Unquote(writer[k].name) = n

\* C3: a path whose stat fails produces exactly one "cannot access '<path>':
\* <error>" line per occurrence on the error stream, no root entry in the
\* listing, and exit status 2; every other path of the invocation whose stat
\* succeeds is still fetched and rendered.
C3_StatFailureReported ==
    pc = "done" =>
        \A p \in Range(paths) :
            StatFails(p) =>
                /\ Count(stderr, [text |-> "cannot access", path |-> p,
                                  detail |-> "ENOENT"]) = Count(paths, p)
                /\ \A k \in 1..Len(entries) : entries[k].path # p
                /\ \A k \in 1..Len(stdout) :
                      stdout[k].kind = "header" => Unquote(stdout[k].name) # p
                /\ exitStatus = 2
                /\ \A q \in Range(paths) : ~StatFails(q) => RootRendered(q)

\* C4: every list of names the lister renders is in case-insensitive
\* lexicographic order by name: the short-mode lists (directly requested
\* files, each directory's children) and the long-mode rows of each
\* directory's children.
C4_ListsInCaseInsensitiveOrder ==
    \A k \in 1..Len(writer) :
        /\ writer[k].kind = "names" =>
              \A j \in 1..(Len(writer[k].names) - 1) :
                  LeqIgnoringCase(Unquote(writer[k].names[j]),
                                  Unquote(writer[k].names[j + 1]))
        /\ (IsChildRow(k) /\ k < Len(writer) /\ writer[k + 1].kind = "long") =>
              LeqIgnoringCase(Unquote(writer[k].name), Unquote(writer[k + 1].name))

\* C5: a directory root's listing is preceded by a "<name>:" header line if
\* and only if more than one path was given on the command line, whether or
\* not the other paths could be stat'd.
C5_HeaderIffSeveralPaths ==
    Rendered =>
        /\ CountKind(writer, "header") = IF Len(paths) > 1 THEN NumDirRoots ELSE 0
        /\ \A k \in 1..Len(writer) :
              writer[k].kind = "header" => fs.cwd[Unquote(writer[k].name)] = "dir"

\* C6: for every directory entry and the configured block size b, the
\* long-mode total is defined for b and for 2b, and total(2b) = total(b) / 2
\* under integer division.
C6_TotalHalvesWhenBlockSizeDoubles ==
    FetchReturned =>
        \A k \in 1..Len(entries) :
            entries[k].info.isDir =>
                LET t1 == blocksForSize(entries[k], config.blockSize)
                    t2 == blocksForSize(entries[k], 2 * config.blockSize)
                IN /\ t1.ok
                   /\ t2.ok
                   /\ t2.val = t1.val \div 2

\* what the filesystem holds for the file that long row k shows
RowFileInfo(k) ==
    FileInfoOf(Unquote(writer[k].name),
               IsChildRow(k) /\ fs.kids[Unquote(writer[k].name)] = "dir")

\* C7: in every long row, the owner column is the account name of the file's
\* uid when the uid is known and its lookup succeeds and "Unknown" otherwise,
\* the group column likewise; neither is empty or the raw numeric id; and the
\* permission, size and time columns are the filesystem's values whether or
\* not the lookups failed.

C7_OwnerAndGroupColumns ==
    \A k \in 1..Len(writer) :
        writer[k].kind = "long" =>
            LET row == writer[k]
                fi == RowFileInfo(k)
            IN /\ row.owner = IF env.hasSys /\ fi.uid \in env.users
                              THEN UserNameOf(fi.uid) ELSE "Unknown"
               /\ row.group = IF env.hasSys /\ fi.gid \in env.groups
                              THEN GroupNameOf(fi.gid) ELSE "Unknown"
               /\ row.owner \notin {"", Itoa(fi.uid), Itoa(-1)}
               /\ row.group \notin {"", Itoa(fi.gid), Itoa(-1)}
               /\ row.mode = fi.mode
               /\ row.size = fi.size
               /\ row.time.of = fi.modYear
               /\ row.time.layout = IF fi.modYear < env.nowYear THEN dateFormat
                                    ELSE timeFormat

\* C7 witness: a long listing reached the writer with one row whose owner
\* lookup failed (shown as "Unknown", the failure met by the fetcher) and one
\* row whose owner lookup succeeded.
C7_Witness ==
    /\ Rendered
    /\ \E k \in 1..Len(writer) :
          /\ writer[k].kind = "long"
          /\ writer[k].owner = "Unknown"
          /\ env.hasSys
          /\ UnknownUserIdError(RowFileInfo(k).uid) \in Range(met)
    /\ \E k \in 1..Len(writer) :
          /\ writer[k].kind = "long"
          /\ writer[k].owner = "root"

\* C8: every two consecutive root sections (the group of directly requested
\* plain files, when present, and each directory's listing) are separated by
\* exactly one blank line, and no blank line precedes the first section or
\* follows the last.
C8_SectionsSeparatedByOneBlankLine ==
    Rendered =>
        LET sections == (IF NumDirectFiles > 0 THEN 1 ELSE 0) + NumDirRoots
        IN /\ CountKind(writer, "blank") = IF sections = 0 THEN 0 ELSE sections - 1
           /\ Len(writer) > 0 =>
                 writer[1].kind # "blank" /\ writer[Len(writer)].kind # "blank"
           /\ \A k \in 1..(Len(writer) - 1) :
                 ~(writer[k].kind = "blank" /\ writer[k + 1].kind = "blank")

RECURSIVE AllHaveFileInfo(_)
AllHaveFileInfo(ents) ==
    \A k \in 1..Len(ents) :
        ents[k].info # Nil /\ AllHaveFileInfo(ents[k].subEntries)

\* C9: every Entry held in the root list or in any directory's subEntries has
\* a valid fileInfo, and no step reads metadata from an Entry that has none
\* (stated for the runs whose walk is finite).
C9_EveryEntryHasFileInfo ==
    panicked # "stack overflow" =>
        /\ AllHaveFileInfo(entries)
        /\ panicked # "nil pointer dereference"

\* C10: called with the recursion flag false, the fetcher issues exactly one
\* directory read per root directory and none for a child entry, and a child
\* directory's subEntries stay empty (stated for the runs in which
\* fetchEntryInfo returns).
C10_OneLevelWalk ==
    FetchReturned =>
        /\ \A k \in 1..Len(reads) : reads[k].depth = 0
        /\ Len(reads) = NumDirRoots
        /\ \A k \in 1..Len(entries) :
              \A j \in 1..Len(entries[k].subEntries) :
                  entries[k].subEntries[j].subEntries = <<>>

====
